---- MODULE Spec2Model ----
(***************************************************************************)
(* Model of observations/sose_data.py: the time-axis decoder, the point    *)
(* extractors and the geostrophic solver, over small gridded datasets.     *)
(*                                                                         *)
(* A dataset is a record of coordinate axes and fields.  Arrays are        *)
(* sequences indexed from 1 (Python index i is model index i+1), nested in *)
(* the order of the dimensions (time, Z, Y, X).  Arithmetic is exact       *)
(* integer arithmetic: field values are even and horizontal spacings are 1 *)
(* or 2, so that every quotient the solver forms is an integer, and 1/f is *)
(* an integer for every nonzero f that is drawn.                           *)
(***************************************************************************)
EXTENDS Integers, Sequences, FiniteSets, TLC

VARIABLES ds, loaded, ret, scope

vars == <<ds, loaded, ret, scope>>

-----------------------------------------------------------------------------
(* Bounds of the model. *)

\* longest time axis of a dataset
MaxT == 3
\* largest number of vertical levels of a dataset
MaxZ == 3

-----------------------------------------------------------------------------
(* Small arithmetic. *)

Min(a, b) == IF a <= b THEN a ELSE b

Max(a, b) == IF a >= b THEN a ELSE b

Abs(a) == IF a < 0 THEN -a ELSE a

Reverse(s) == [i \in 1..Len(s) |-> s[Len(s) + 1 - i]]

-----------------------------------------------------------------------------
(* The horizontal grid of the datasets: cell centres (XC, YC) and the left *)
(* cell edges (XG, YG), in degrees.                                        *)

XC == <<10, 30>>

XG == <<0, 20>>

YC == <<-50, -30>>

YG == <<-60, -40>>

Nx == Len(XC)

Ny == Len(YC)

\* the variables of the merged collections and the dimensions they carry
Vars3D == {"UVEL", "VVEL", "THETA", "SALT"}

Vars2D == {"oceTAUX", "oceTAUY", "MLD"}

VarNames == Vars3D \cup Vars2D

\* coefficients of the synthetic field values, one tuple per variable
Coef(var) ==
    CASE var = "UVEL"    -> <<1, 2, 3, 1, 1>>
      [] var = "VVEL"    -> <<2, 1, 1, 3, 2>>
      [] var = "THETA"   -> <<1, 3, 2, 5, 1>>
      [] var = "SALT"    -> <<3, 1, 4, 2, 3>>
      [] var = "oceTAUX" -> <<1, 0, 2, 3, 0>>
      [] var = "oceTAUY" -> <<2, 0, 3, 1, 0>>
      [] OTHER           -> <<3, 0, 1, 2, 0>>

\* an even value for the entry (t, z, y, x) of a variable, from a seed
Value(var, seed, t, z, y, x) ==
    LET c == Coef(var)
    IN  2 * (((c[1] * t + c[2] * z + c[3] * y + c[4] * x
               + c[5] * x * y * z + seed * (t + x) * (y + z)) % 7) - 3)

Field3D(var, seed, nt, nz) ==
    [t \in 1..nt |-> [z \in 1..nz |-> [y \in 1..Ny |-> [x \in 1..Nx |->
        Value(var, seed, t, z, y, x)]]]]

Field2D(var, seed, nt) ==
    [t \in 1..nt |-> [y \in 1..Ny |-> [x \in 1..Nx |->
        Value(var, seed, t, 0, y, x)]]]

\* the time axis: datetime64[ns] values, as nanoseconds since the epoch
TimeAxis(nt, step) == [t \in 1..nt |-> 2000 + step * (t - 1)]

\* the kinds of dataset drawn: <<number of levels, time step, data seed>>
Kinds == {<<MaxZ, 400, 0>>, <<MaxZ, -600, 1>>, <<2, 0, 1>>, <<2, 1400, 0>>}

\* A dataset as the loaders hand it over: Z runs from the surface level down
\* (index 1 the shallowest cell centre), Zl holds the upper face of each cell.
Dataset(nt, nz, step, seed) ==
    [time    |-> TimeAxis(nt, step),
     Z       |-> [k \in 1..nz |-> -(10 * k - 5)],
     Zl      |-> [k \in 1..nz |-> -(10 * (k - 1))],
     drF     |-> [k \in 1..nz |-> 10 + k],
     hFacC   |-> [k \in 1..nz |-> [y \in 1..Ny |-> [x \in 1..Nx |->
                    IF k = nz /\ x = 1 /\ seed = 1 THEN 0 ELSE 1]]],
     hFacW   |-> [k \in 1..nz |-> [y \in 1..Ny |-> [x \in 1..Nx |->
                    IF k = nz /\ y = 1 /\ seed = 1 THEN 0 ELSE 1]]],
     hFacS   |-> [k \in 1..nz |-> [y \in 1..Ny |-> [x \in 1..Nx |->
                    IF k = nz /\ x = 2 /\ seed = 1 THEN 0 ELSE 1]]],
     dxC     |-> [y \in 1..Ny |-> [x \in 1..Nx |-> IF y = 1 THEN 2 ELSE 1]],
     dyC     |-> [y \in 1..Ny |-> [x \in 1..Nx |-> IF x = 1 THEN 1 ELSE 2]],
     UVEL    |-> Field3D("UVEL", seed, nt, nz),
     VVEL    |-> Field3D("VVEL", seed, nt, nz),
     THETA   |-> Field3D("THETA", seed, nt, nz),
     SALT    |-> Field3D("SALT", seed, nt, nz),
     oceTAUX |-> Field2D("oceTAUX", seed, nt),
     oceTAUY |-> Field2D("oceTAUY", seed, nt),
     MLD     |-> Field2D("MLD", seed, nt)]

Datasets == {Dataset(nt, k[1], k[2], k[3]) : nt \in 1..MaxT, k \in Kinds}

-----------------------------------------------------------------------------
(* Library primitives as the module uses them. *)

\* positional slice(start, stop) of a sequence, 0 <= start <= stop
ISel(s, start, stop) == SubSeq(s, Min(start, Len(s)) + 1, Min(stop, Len(s)))

\* .sel(..., method="nearest"): the index of the axis entry closest to v; of
\* two entries equally close, the one with the larger coordinate value
Nearest(axis, v) ==
    CHOOSE i \in 1..Len(axis) :
        \A j \in 1..Len(axis) :
            \/ Abs(axis[i] - v) < Abs(axis[j] - v)
            \/ Abs(axis[i] - v) = Abs(axis[j] - v) /\ axis[i] >= axis[j]

\* the axis a coordinate name denotes
Axis(name) ==
    CASE name = "XC" -> XC
      [] name = "XG" -> XG
      [] name = "YC" -> YC
      [] OTHER       -> YG

\* one time step of a variable at the horizontal point (iy, ix): a profile
\* over the vertical levels for a 3D variable, a number for a 2D one
AtPoint(var, slab, iy, ix) ==
    IF var \in Vars3D
    THEN [k \in 1..Len(slab) |-> slab[k][iy][ix]]
    ELSE slab[iy][ix]

-----------------------------------------------------------------------------
(* get_times *)

\* datetime.utcfromtimestamp of (dt - epoch) / 1 s: a timestamp with
\* microsecond resolution, the nanoseconds rounded half to even
NsPerUs == 1000

DecodeTime(dt) ==
    LET q == dt \div NsPerUs
        r == dt % NsPerUs
    IN  IF 2 * r > NsPerUs \/ (2 * r = NsPerUs /\ q % 2 = 1) THEN q + 1 ELSE q

\* a sequence without the entries that repeat their predecessor
RECURSIVE Unique(_)
Unique(s) ==
    IF Len(s) <= 1 THEN s
    ELSE IF s[1] = s[2] THEN Unique(Tail(s))
    ELSE <<s[1]>> \o Unique(Tail(s))

\* mutant: repeated timestamps are dropped
GetTimesUnique(d) ==
    [caller |-> d,
     value  |-> Unique([i \in 1..Len(d.time) |-> DecodeTime(d.time[i])])]

GetTimes(d) ==
    [caller |-> d,
     value  |-> [i \in 1..Len(d.time) |-> DecodeTime(d.time[i])]]

-----------------------------------------------------------------------------
(* get_scalar_time_series, get_profile_time_series *)

\* mutant: the stop of the slice is days, not day_offset + days
ScalarTimeSliceNoOffset(day_offset, days) == <<day_offset, days>>

\* time_slice = slice(day_offset, day_offset + days), as <<start, stop>>
ScalarTimeSlice(day_offset, days) == <<day_offset, day_offset + days>>

\* the coordinate names the if / elif / else selects on, as <<X name, Y name>>
ScalarCoords(var) ==
    IF var \in {"UVEL", "oceTAUX"} THEN <<"XG", "YC">>
    ELSE IF var \in {"VVEL", "oceTAUY"} THEN <<"XC", "YG">>
    ELSE <<"XC", "YC">>

GetScalarTimeSeries(d, var, lat, lon, day_offset, days) ==
    LET time_slice == ScalarTimeSlice(day_offset, days)
        coords == ScalarCoords(var)
        ix == Nearest(Axis(coords[1]), lon)
        iy == Nearest(Axis(coords[2]), lat)
        sliced == ISel(d[var], time_slice[1], time_slice[2])
    IN  [caller |-> d,
         coords |-> coords,
         value  |-> [t \in 1..Len(sliced) |-> AtPoint(var, sliced[t], iy, ix)]]

ProfileTimeSlice(day_offset, days) == <<day_offset, day_offset + days>>

\* mutant: oceTAUY is missing from the second branch
ProfileCoordsShort(var) ==
    IF var \in {"UVEL", "oceTAUX"} THEN <<"XG", "YC">>
    ELSE IF var \in {"VVEL"} THEN <<"XC", "YG">>
    ELSE <<"XC", "YC">>

ProfileCoords(var) ==
    IF var \in {"UVEL", "oceTAUX"} THEN <<"XG", "YC">>
    ELSE IF var \in {"VVEL", "oceTAUY"} THEN <<"XC", "YG">>
    ELSE <<"XC", "YC">>

\* mutant: the sliced variable is stored back on the dataset
GetProfileTimeSeriesInPlace(d, var, lat, lon, day_offset, days) ==
    LET time_slice == ProfileTimeSlice(day_offset, days)
        coords == ProfileCoords(var)
        ix == Nearest(Axis(coords[1]), lon)
        iy == Nearest(Axis(coords[2]), lat)
        sliced == ISel(d[var], time_slice[1], time_slice[2])
    IN  [caller |-> [d EXCEPT ![var] = sliced],
         coords |-> coords,
         value  |-> [t \in 1..Len(sliced) |-> AtPoint(var, sliced[t], iy, ix)]]

GetProfileTimeSeries(d, var, lat, lon, day_offset, days) ==
    LET time_slice == ProfileTimeSlice(day_offset, days)
        coords == ProfileCoords(var)
        ix == Nearest(Axis(coords[1]), lon)
        iy == Nearest(Axis(coords[2]), lat)
        sliced == ISel(d[var], time_slice[1], time_slice[2])
    IN  [caller |-> d,
         coords |-> coords,
         value  |-> [t \in 1..Len(sliced) |-> AtPoint(var, sliced[t], iy, ix)]]

-----------------------------------------------------------------------------
(* compute_geostrophic_velocities *)

\* Floating-point results: a finite number, a signed infinity, or NaN.
Finite(v) == [cls |-> "finite", v |-> v]

PosInf == [cls |-> "inf", v |-> 1]

NegInf == [cls |-> "inf", v |-> -1]

NaN == [cls |-> "nan", v |-> 0]

\* inf * x for a finite x
InfTimes(x) == IF x > 0 THEN PosInf ELSE IF x < 0 THEN NegInf ELSE NaN

\* finite - w and finite + w for w infinite or NaN
FloatNeg(w) == IF w.cls = "inf" THEN [cls |-> "inf", v |-> -w.v] ELSE w

\* mutant: the axes are relabelled in reverse order, the fields stay in place
ReindexAxesOnly(d) == [d EXCEPT !.Z = Reverse(d.Z), !.Zl = Reverse(d.Zl)]

\* ds.reindex(Z=ds.Z[::-1], Zl=ds.Zl[::-1]): a new dataset in which both
\* vertical axes, and every field along them, are in the reverse order
Reindex(d) ==
    [d EXCEPT !.Z = Reverse(d.Z),
              !.Zl = Reverse(d.Zl),
              !.drF = Reverse(d.drF),
              !.hFacC = Reverse(d.hFacC),
              !.hFacW = Reverse(d.hFacW),
              !.hFacS = Reverse(d.hFacS),
              !.UVEL = [t \in 1..Len(d.UVEL) |-> Reverse(d.UVEL[t])],
              !.VVEL = [t \in 1..Len(d.VVEL) |-> Reverse(d.VVEL[t])],
              !.THETA = [t \in 1..Len(d.THETA) |-> Reverse(d.THETA[t])],
              !.SALT = [t \in 1..Len(d.SALT) |-> Reverse(d.SALT[t])]]

\* mutant: the metrics are attached to the object the caller passed
SolverCallerAliased(d, d2) == d2

\* the object the caller passed, once the call is over: ds is rebound to
\* the reindexed dataset d2 before anything is attached, so it is d
SolverCaller(d, d2) == d

SolverTimeSlice(day_offset, days) == <<day_offset, day_offset + days>>

\* hFac * drF
CellThickness(hFac, drF) ==
    [k \in 1..Len(drF) |-> [y \in 1..Ny |-> [x \in 1..Nx |->
        hFac[k][y][x] * drF[k]]]]

\* ds["drW"], ds["drS"], ds["drC"] = ...
AttachMetrics(d) ==
    [drW |-> CellThickness(d.hFacW, d.drF),
     drS |-> CellThickness(d.hFacS, d.drF),
     drC |-> CellThickness(d.hFacC, d.drF)] @@ d

\* index i - 1 on a periodic axis of length n
Wrap(i, n) == IF i = 1 THEN n ELSE i - 1

\* grid.derivative(A, 'X'): from (YC, XC) to (YC, XG), over dxC
DerivativeX(A, d) ==
    [t \in 1..Len(A) |-> [k \in 1..Len(A[t]) |-> [y \in 1..Ny |-> [x \in 1..Nx |->
        (A[t][k][y][x] - A[t][k][y][Wrap(x, Nx)]) \div d.dxC[y][x]]]]]

\* grid.derivative(A, 'Y'): from (YC, XC) to (YG, XC), over dyC
DerivativeY(A, d) ==
    [t \in 1..Len(A) |-> [k \in 1..Len(A[t]) |-> [y \in 1..Ny |-> [x \in 1..Nx |->
        (A[t][k][y][x] - A[t][k][Wrap(y, Ny)][x]) \div d.dyC[y][x]]]]]

\* the sum of col[1..k] * dr[1..k] at a horizontal point
RECURSIVE PartialSum(_, _, _, _, _)
PartialSum(col, dr, y, x, k) ==
    IF k = 0 THEN 0
    ELSE PartialSum(col, dr, y, x, k - 1) + col[k][y][x] * dr[k][y][x]

\* grid.cumint(D, 'Z', boundary="extend"): the running sum of D * dr along
\* the vertical index, moved from the cell centres to the left faces (Zl):
\* entry k holds the sum over the cells 1..k-1, and entry 1 repeats entry 2
CumInt(D, dr) ==
    [t \in 1..Len(D) |-> [k \in 1..Len(D[t]) |-> [y \in 1..Ny |-> [x \in 1..Nx |->
        PartialSum(D[t], dr, y, x, Max(k - 1, 1))]]]]

\* mutant: the salinity term is not scaled by beta
BuoyancyIntegralNoBeta(g, alpha, beta, sT, sS) ==
    [t \in 1..Len(sT) |-> [k \in 1..Len(sT[t]) |-> [y \in 1..Ny |-> [x \in 1..Nx |->
        g * (alpha * sT[t][k][y][x] - sS[t][k][y][x])]]]]

\* g * (alpha * Sigma_Theta - beta * Sigma_S), entry by entry
BuoyancyIntegral(g, alpha, beta, sT, sS) ==
    [t \in 1..Len(sT) |-> [k \in 1..Len(sT[t]) |-> [y \in 1..Ny |-> [x \in 1..Nx |->
        g * (alpha * sT[t][k][y][x] - beta * sS[t][k][y][x])]]]]

\* mutant: the last level of the reindexed axis
ZBottomLast(d) == d.Z[Len(d.Z)]

\* z_bottom = ds.Z.values[0]
ZBottom(d) == d.Z[1]

\* mutant: a zero of either type gives inf
ReciprocalSilent(f) ==
    IF f.zero
    THEN [raised |-> FALSE, inf |-> TRUE]
    ELSE [raised |-> FALSE, inf |-> FALSE, v |-> f.inv]

\* 1/f: a Python int or float zero raises ZeroDivisionError; a numpy float
\* zero gives inf (and a warning); otherwise the reciprocal
Reciprocal(f) ==
    IF f.zero
    THEN IF f.type = "float" THEN [raised |-> TRUE] ELSE [raised |-> FALSE, inf |-> TRUE]
    ELSE [raised |-> FALSE, inf |-> FALSE, v |-> f.inv]

\* mutant: the buoyancy term is added
ThermalWindUPlus(u_d, rf, sigma) ==
    IF rf.inf THEN InfTimes(sigma) ELSE Finite(u_d + rf.v * sigma)

\* U_d - 1/f * Sigma at one entry
ThermalWindU(u_d, rf, sigma) ==
    IF rf.inf THEN FloatNeg(InfTimes(sigma)) ELSE Finite(u_d - rf.v * sigma)

\* V_d + 1/f * Sigma at one entry
ThermalWindV(v_d, rf, sigma) ==
    IF rf.inf THEN InfTimes(sigma) ELSE Finite(v_d + rf.v * sigma)

ComputeGeostrophicVelocities(d, lat, lon, day_offset, days, zF, alpha, beta, g, f) ==
    LET d2 == Reindex(d)
        time_slice == SolverTimeSlice(day_offset, days)
        U == ISel(d2.UVEL, time_slice[1], time_slice[2])
        V == ISel(d2.VVEL, time_slice[1], time_slice[2])
        Theta == ISel(d2.THETA, time_slice[1], time_slice[2])
        S == ISel(d2.SALT, time_slice[1], time_slice[2])
        d3 == AttachMetrics(d2)
        dz_dThetadx == CumInt(DerivativeX(Theta, d3), d3.drW)
        dz_dThetady == CumInt(DerivativeY(Theta, d3), d3.drS)
        dz_dSdx == CumInt(DerivativeX(S, d3), d3.drW)
        dz_dSdy == CumInt(DerivativeY(S, d3), d3.drS)
        dz_dBdx == BuoyancyIntegral(g, alpha, beta, dz_dThetadx, dz_dSdx)
        dz_dBdy == BuoyancyIntegral(g, alpha, beta, dz_dThetady, dz_dSdy)
        z_bottom == ZBottom(d3)
        iz == Nearest(d3.Z, z_bottom)
        ixc == Nearest(XC, lon)
        ixg == Nearest(XG, lon)
        iyc == Nearest(YC, lat)
        iyg == Nearest(YG, lat)
        U_d == [t \in 1..Len(U) |-> U[t][iz][iyc][ixg]]
        V_d == [t \in 1..Len(V) |-> V[t][iz][iyg][ixc]]
        rf == Reciprocal(f)
        locals == [op |-> "compute_geostrophic_velocities",
                   ds |-> d3, z_bottom |-> z_bottom, U_d |-> U_d, V_d |-> V_d,
                   dz_dThetadx |-> dz_dThetadx, dz_dThetady |-> dz_dThetady,
                   dz_dSdx |-> dz_dSdx, dz_dSdy |-> dz_dSdy]
    IN  IF rf.raised
        THEN [caller |-> SolverCaller(d, d3), locals |-> locals,
              status |-> "raised", error |-> "ZeroDivisionError"]
        ELSE [caller |-> SolverCaller(d, d3), locals |-> locals,
              status |-> "returned",
              U_geo |-> [t \in 1..Len(U_d) |-> [k \in 1..Len(d3.Zl) |->
                            ThermalWindU(U_d[t], rf, dz_dBdy[t][k][iyg][ixc])]],
              V_geo |-> [t \in 1..Len(V_d) |-> [k \in 1..Len(d3.Zl) |->
                            ThermalWindV(V_d[t], rf, dz_dBdx[t][k][iyc][ixg])]]]

-----------------------------------------------------------------------------
(* The calls a caller makes.  ds is the caller's dataset object, loaded the *)
(* dataset as it was when the loader returned it (a history variable that  *)
(* no call reads), ret what the last call handed back (with its            *)
(* arguments), scope the local values of the last solver call.  The caller *)
(* makes one call at a time and goes on to the next after the call is over.*)

\* the points (lat, lon) asked for; the second lies east of the grid
Points == {<<-44, 16>>, <<-38, 33>>}

Offsets == 0..(MaxT + 1)

Lengths == 0..MaxT

Alphas == {0, 2}

Betas == {0, 1}

Gs == {1, 3}

\* Coriolis parameters: zero as a Python float and as a numpy float64, and
\* the nonzero values 1 and -1/2 (inv is the reciprocal)
Fs ==
    {[type |-> "float", zero |-> TRUE, inv |-> 0],
     [type |-> "numpy.float64", zero |-> TRUE, inv |-> 0],
     [type |-> "float", zero |-> FALSE, inv |-> 1],
     [type |-> "numpy.float64", zero |-> FALSE, inv |-> -2]}

ZFs == {<<>>}

NoScope == [op |-> "none"]

Idle == ret.op = "none"

Init ==
    /\ ds \in Datasets
    /\ loaded = ds
    /\ ret = [op |-> "none"]
    /\ scope = NoScope

CallGetTimes ==
    /\ Idle
    /\ LET out == GetTimes(ds)
       IN  /\ ds' = out.caller
           /\ ret' = [op |-> "get_times", status |-> "returned", value |-> out.value]
           /\ scope' = NoScope
           /\ UNCHANGED loaded

CallGetScalarTimeSeries ==
    /\ Idle
    /\ \E var \in VarNames, p \in Points, day_offset \in Offsets, days \in Lengths :
        LET out == GetScalarTimeSeries(ds, var, p[1], p[2], day_offset, days)
        IN  /\ ds' = out.caller
            /\ ret' = [op |-> "get_scalar_time_series", status |-> "returned",
                       var |-> var, lat |-> p[1], lon |-> p[2],
                       day_offset |-> day_offset, days |-> days,
                       coords |-> out.coords, value |-> out.value]
            /\ scope' = NoScope
            /\ UNCHANGED loaded
           /\ UNCHANGED loaded

CallGetProfileTimeSeries ==
    /\ Idle
    /\ \E var \in VarNames, p \in Points, day_offset \in Offsets, days \in Lengths :
        LET out == GetProfileTimeSeries(ds, var, p[1], p[2], day_offset, days)
        IN  /\ ds' = out.caller
            /\ ret' = [op |-> "get_profile_time_series", status |-> "returned",
                       var |-> var, lat |-> p[1], lon |-> p[2],
                       day_offset |-> day_offset, days |-> days,
                       coords |-> out.coords, value |-> out.value]
            /\ scope' = NoScope
            /\ UNCHANGED loaded
           /\ UNCHANGED loaded

CallComputeGeostrophicVelocities ==
    /\ Idle
    /\ \E p \in Points, day_offset \in Offsets, days \in Lengths, zF \in ZFs,
          alpha \in Alphas, beta \in Betas, g \in Gs, f \in Fs :
        LET out == ComputeGeostrophicVelocities(ds, p[1], p[2], day_offset, days,
                                                zF, alpha, beta, g, f)
            args == [op |-> "compute_geostrophic_velocities",
                     lat |-> p[1], lon |-> p[2],
                     day_offset |-> day_offset, days |-> days,
                     alpha |-> alpha, beta |-> beta, g |-> g, f |-> f]
        IN  /\ ds' = out.caller
            /\ ret' = IF out.status = "raised"
                      THEN [status |-> "raised", error |-> out.error] @@ args
                      ELSE [status |-> "returned",
                            U_geo |-> out.U_geo, V_geo |-> out.V_geo] @@ args
            /\ scope' = out.locals
            /\ UNCHANGED loaded

\* the call is over: the caller goes on to its next call
Continue ==
    /\ ~Idle
    /\ ret' = [op |-> "none"]
    /\ scope' = NoScope
    /\ UNCHANGED <<ds, loaded>>

Next ==
    \/ CallGetTimes
    \/ CallGetScalarTimeSeries
    \/ CallGetProfileTimeSeries
    \/ CallComputeGeostrophicVelocities
    \/ Continue

Spec == Init /\ [][Next]_vars

-----------------------------------------------------------------------------
(* Properties. *)

Solved == ret.op = "compute_geostrophic_velocities"

Readers == {"get_times", "get_scalar_time_series", "get_profile_time_series"}

\* the time steps Python's slice(day_offset, day_offset + days) keeps of an
\* axis of n entries, as the number of the first one less one, and their count
WindowStart(n) == Min(ret.day_offset, n)

WindowLength(n) == Min(ret.days, Max(0, n - ret.day_offset))

\* C1: get_scalar_time_series returns, never raising, an array whose length
\* along time is at most days and equals min(days, max(0, N - day_offset)),
\* N the length of the time axis.
C1_SliceLength ==
    ret.op = "get_scalar_time_series" =>
        /\ ret.status = "returned"
        /\ Len(ret.value) <= ret.days
        /\ Len(ret.value) = Min(ret.days, Max(0, Len(ds.time) - ret.day_offset))

\* a window that runs past the end of the axis gave a shorter, nonempty result
C1_Witness ==
    /\ ret.op = "get_scalar_time_series"
    /\ ret.day_offset + ret.days > Len(ds.time)
    /\ Len(ret.value) > 0
    /\ Len(ret.value) < ret.days

\* the coordinate pair C2 states for a variable name
PlacementCoords(var) ==
    CASE var \in {"UVEL", "oceTAUX"} -> <<"XG", "YC">>
      [] var \in {"VVEL", "oceTAUY"} -> <<"XC", "YG">>
      [] var \notin {"UVEL", "oceTAUX", "VVEL", "oceTAUY"} -> <<"XC", "YC">>

\* C2: in both extractors the variable name alone decides the coordinate pair
\* of the nearest-point selection: (XG, YC) for UVEL and oceTAUX, (XC, YG) for
\* VVEL and oceTAUY, (XC, YC) for every other name; the values returned are
\* those of the variable at the nearest point on that pair.
C2_Routing ==
    ret.op \in {"get_scalar_time_series", "get_profile_time_series"} =>
        LET pair == PlacementCoords(ret.var)
            ix == Nearest(Axis(pair[1]), ret.lon)
            iy == Nearest(Axis(pair[2]), ret.lat)
            n == Len(ds[ret.var])
        IN  /\ ret.coords = pair
            /\ \A t \in 1..Len(ret.value) :
                   ret.value[t] = AtPoint(ret.var, ds[ret.var][WindowStart(n) + t], iy, ix)

\* get_profile_time_series selected oceTAUY where the centre and the edge
\* coordinates pick different grid points
C2_Witness ==
    /\ ret.op = "get_profile_time_series"
    /\ ret.var = "oceTAUY"
    /\ Nearest(YG, ret.lat) # Nearest(YC, ret.lat)
    /\ Len(ret.value) > 0
    /\ ret.coords = <<"XC", "YG">>

\* C3: with alpha = 0, beta = 0 and f # 0 every (time, level) entry of U_geo
\* and V_geo is the reference velocity U_d, V_d of that time step.
C3_ZeroExpansion ==
    (Solved /\ ret.alpha = 0 /\ ret.beta = 0 /\ ~ret.f.zero) =>
        /\ ret.status = "returned"
        /\ Len(ret.U_geo) = Len(scope.U_d)
        /\ Len(ret.V_geo) = Len(scope.V_d)
        /\ \A t \in 1..Len(ret.U_geo) :
               /\ Len(ret.U_geo[t]) = Len(ds.Z)
               /\ Len(ret.V_geo[t]) = Len(ds.Z)
               /\ \A k \in 1..Len(ds.Z) :
                      /\ ret.U_geo[t][k] = Finite(scope.U_d[t])
                      /\ ret.V_geo[t][k] = Finite(scope.V_d[t])

\* alpha = beta = 0 on a nonempty window where the integrated temperature
\* gradients at the selected points do not vanish
C3_Witness ==
    /\ Solved
    /\ ret.alpha = 0
    /\ ret.beta = 0
    /\ ~ret.f.zero
    /\ ret.status = "returned"
    /\ Len(ret.U_geo) > 0
    /\ \E k \in 1..Len(ds.Z) :
           /\ scope.dz_dThetady[1][k][Nearest(YG, ret.lat)][Nearest(XC, ret.lon)] # 0
           /\ scope.dz_dThetadx[1][k][Nearest(YC, ret.lat)][Nearest(XG, ret.lon)] # 0

Metrics == {"drW", "drS", "drC"}

\* C4, as stated: after the call the caller's dataset carries drW, drS and drC.
C4_CallerCarriesMetrics == Solved => Metrics \subseteq DOMAIN ds

\* C4, amended: the call leaves the caller's dataset as it was, without drW,
\* drS and drC; the fields (thickness fraction times cell height) are on the
\* reindexed dataset that is local to the call.
C4_MetricsOnLocalCopy ==
    [][(ret'.op = "compute_geostrophic_velocities") =>
          /\ ds' = ds
          /\ Metrics \cap DOMAIN ds' = {}
          /\ Metrics \subseteq DOMAIN scope'.ds
          /\ \A k \in 1..Len(ds.Z), y \in 1..Ny, x \in 1..Nx :
                LET j == Len(ds.Z) + 1 - k
                IN  /\ scope'.ds.drW[k][y][x] = ds.hFacW[j][y][x] * ds.drF[j]
                    /\ scope'.ds.drS[k][y][x] = ds.hFacS[j][y][x] * ds.drF[j]
                    /\ scope'.ds.drC[k][y][x] = ds.hFacC[j][y][x] * ds.drF[j]]_vars

\* the solver has run: its local dataset carries the metrics, the caller's not
C4_Witness ==
    /\ Solved
    /\ Metrics \subseteq DOMAIN scope.ds
    /\ Metrics \cap DOMAIN ds = {}
    /\ ds = loaded

FloatEntries(A) == {A[t][k] : t \in 1..Len(A), k \in 1..Len(ds.Z)}

\* C5, as stated: with f = 0 the call returns, and the entries are inf or NaN.
C5_ZeroFReturns ==
    (Solved /\ ret.f.zero) =>
        /\ ret.status = "returned"
        /\ \A e \in FloatEntries(ret.U_geo) \cup FloatEntries(ret.V_geo) :
               e.cls \in {"inf", "nan"}

\* C5, amended: with f = 0 a Python number makes the call raise
\* ZeroDivisionError (1/f is evaluated first); only a numpy float zero makes
\* it return, and then every entry is inf or NaN.
C5_ZeroF ==
    (Solved /\ ret.f.zero) =>
        IF ret.f.type = "float"
        THEN ret.status = "raised" /\ ret.error = "ZeroDivisionError"
        ELSE /\ ret.status = "returned"
             /\ Len(ret.U_geo) = WindowLength(Len(ds.time))
             /\ Len(ret.V_geo) = WindowLength(Len(ds.time))
             /\ \A e \in FloatEntries(ret.U_geo) \cup FloatEntries(ret.V_geo) :
                    e.cls \in {"inf", "nan"}

\* a call with a Python zero for f ended in the error
C5_Witness ==
    /\ Solved
    /\ ret.f.zero
    /\ ret.f.type = "float"
    /\ ret.days > 0
    /\ ret.status = "raised"

NonDecreasing(s) == \A i \in 1..(Len(s) - 1) : s[i] <= s[i + 1]

RECURSIVE SumFrom(_, _, _, _, _)
SumFrom(col, dr, y, x, k) ==
    IF k > Len(col) THEN 0
    ELSE col[k][y][x] * dr[k][y][x] + SumFrom(col, dr, y, x, k + 1)

\* the reference: on the axes as loaded (level 1 the surface), the integral
\* accumulated from the last level towards the first, at the upper face of
\* level i, with the same extension at the boundary
TopDownIntegral(D, dr, t, i, y, x) ==
    SumFrom(D[t], dr, y, x, Min(i + 1, Len(dr)))

\* C7: reversing Z and Zl twice restores the dataset, and the cumulative
\* integrals the solver computes on the reversed axes equal, level by level,
\* those of the top-down reference on the axes as loaded.
C7_ReverseTwice ==
    /\ Reindex(Reindex(ds)) = ds
    /\ Solved =>
        LET n == Len(ds.Z)
            nt == Len(ds.time)
            Theta == ISel(ds.THETA, ret.day_offset, ret.day_offset + ret.days)
            S == ISel(ds.SALT, ret.day_offset, ret.day_offset + ret.days)
            drW == CellThickness(ds.hFacW, ds.drF)
            drS == CellThickness(ds.hFacS, ds.drF)
        IN  /\ Reverse(scope.ds.Z) = ds.Z
            /\ Reverse(scope.ds.Zl) = ds.Zl
            /\ Len(scope.dz_dThetadx) = WindowLength(nt)
            /\ \A t \in 1..WindowLength(nt), i \in 1..n, y \in 1..Ny, x \in 1..Nx :
                   /\ scope.dz_dThetadx[t][n + 1 - i][y][x]
                        = TopDownIntegral(DerivativeX(Theta, ds), drW, t, i, y, x)
                   /\ scope.dz_dThetady[t][n + 1 - i][y][x]
                        = TopDownIntegral(DerivativeY(Theta, ds), drS, t, i, y, x)
                   /\ scope.dz_dSdx[t][n + 1 - i][y][x]
                        = TopDownIntegral(DerivativeX(S, ds), drW, t, i, y, x)
                   /\ scope.dz_dSdy[t][n + 1 - i][y][x]
                        = TopDownIntegral(DerivativeY(S, ds), drS, t, i, y, x)

\* the solver integrated over more than two levels and the integral at the
\* top differs from the one at the bottom
C7_Witness ==
    /\ Solved
    /\ Len(ds.Z) > 2
    /\ scope.ds.Z # ds.Z
    /\ Len(scope.dz_dThetadx) > 0
    /\ \E y \in 1..Ny, x \in 1..Nx :
           scope.dz_dThetadx[1][Len(ds.Z)][y][x] # scope.dz_dThetadx[1][1][y][x]

\* C8: no call of get_times, get_scalar_time_series, get_profile_time_series
\* changes the dataset, so at any point of a sequence of calls each of them
\* returns what it returns on the dataset as loaded.
C8_ReadOnly ==
    /\ ds = loaded
    /\ ret.op = "get_times" => ret.value = GetTimes(loaded).value
    /\ ret.op = "get_scalar_time_series" =>
           ret.value = GetScalarTimeSeries(loaded, ret.var, ret.lat, ret.lon,
                                           ret.day_offset, ret.days).value
    /\ ret.op = "get_profile_time_series" =>
           ret.value = GetProfileTimeSeries(loaded, ret.var, ret.lat, ret.lon,
                                            ret.day_offset, ret.days).value

\* a reader returned a nonempty part of a variable and the dataset is as loaded
C8_Witness ==
    /\ ret.op = "get_profile_time_series"
    /\ ret.day_offset > 0
    /\ Len(ret.value) > 0
    /\ Len(ret.value) < Len(ds.time)
    /\ ds = loaded

\* C9: after the reindexing index 0 of Z is the deepest level; z_bottom is
\* that level, and U_d (nearest XG, YC) and V_d (nearest XC, YG) are the
\* velocities at the deepest level for each time step of the window.
C9_DeepestLevel ==
    Solved =>
        LET n == Len(ds.Z)
            nt == Len(ds.time)
        IN  /\ \A k \in 1..n : scope.z_bottom <= ds.Z[k]
            /\ scope.ds.Z[1] = scope.z_bottom
            /\ \A k \in 2..n : scope.ds.Z[k] > scope.ds.Z[1]
            /\ Len(scope.U_d) = WindowLength(nt)
            /\ Len(scope.V_d) = WindowLength(nt)
            /\ \A t \in 1..WindowLength(nt) :
                   /\ scope.U_d[t] = ds.UVEL[WindowStart(nt) + t][n]
                                         [Nearest(YC, ret.lat)][Nearest(XG, ret.lon)]
                   /\ scope.V_d[t] = ds.VVEL[WindowStart(nt) + t][n]
                                         [Nearest(YG, ret.lat)][Nearest(XC, ret.lon)]

\* a nonempty window where the velocity at the deepest level differs from the
\* one at the surface level
C9_Witness ==
    /\ Solved
    /\ Len(scope.U_d) > 0
    /\ ret.day_offset > 0
    /\ scope.U_d[1] # ds.UVEL[WindowStart(Len(ds.time)) + 1][1]
                           [Nearest(YC, ret.lat)][Nearest(XG, ret.lon)]
    /\ scope.V_d[1] # ds.VVEL[WindowStart(Len(ds.time)) + 1][1]
                           [Nearest(YG, ret.lat)][Nearest(XC, ret.lon)]

\* C10: for f # 0 every (time, level) entry obeys the thermal-wind formula:
\* U_geo = U_d - (1/f) g (alpha cumint(dTheta/dy) - beta cumint(dS/dy)) at the
\* nearest (XC, YG) point, V_geo = V_d + (1/f) g (alpha cumint(dTheta/dx)
\* - beta cumint(dS/dx)) at the nearest (XG, YC) point, over the time steps
\* of the window only.
C10_ThermalWind ==
    (Solved /\ ~ret.f.zero) =>
        LET n == Len(ds.Z)
            nt == Len(ds.time)
            ixc == Nearest(XC, ret.lon)
            ixg == Nearest(XG, ret.lon)
            iyc == Nearest(YC, ret.lat)
            iyg == Nearest(YG, ret.lat)
        IN  /\ ret.status = "returned"
            /\ Len(ret.U_geo) = WindowLength(nt)
            /\ Len(ret.V_geo) = WindowLength(nt)
            /\ \A t \in 1..WindowLength(nt), k \in 1..n :
                   /\ ret.U_geo[t][k] =
                        Finite(scope.U_d[t] - ret.f.inv * ret.g *
                                 (ret.alpha * scope.dz_dThetady[t][k][iyg][ixc]
                                    - ret.beta * scope.dz_dSdy[t][k][iyg][ixc]))
                   /\ ret.V_geo[t][k] =
                        Finite(scope.V_d[t] + ret.f.inv * ret.g *
                                 (ret.alpha * scope.dz_dThetadx[t][k][iyc][ixg]
                                    - ret.beta * scope.dz_dSdx[t][k][iyc][ixg]))

\* both expansion coefficients nonzero and a level where both velocities
\* differ from their reference values
C10_Witness ==
    /\ Solved
    /\ ~ret.f.zero
    /\ ret.alpha # 0
    /\ ret.beta # 0
    /\ ret.status = "returned"
    /\ Len(ret.U_geo) > 0
    /\ \E k \in 1..Len(ds.Z) :
           /\ ret.U_geo[1][k] # Finite(scope.U_d[1])
           /\ ret.V_geo[1][k] # Finite(scope.V_d[1])

====
